---- MODULE Spec2Model ----
(***************************************************************************)
(* A model of the time-series storage core of banyand/tsdb/series.go:      *)
(* the GlobalItemID codec (Marshal / UnMarshal), the Series facade        *)
(* (ID / Span / Create / Get) over the block database, and seriesSpan.     *)
(*                                                                         *)
(* TLC's integers are 32 bits wide, so a uint32 is held as two and a       *)
(* uint64 as four base-65536 digits, most significant first; a uint16 is   *)
(* a plain number in 0..65535.  A byte is a number in 0..255.              *)
(***************************************************************************)
EXTENDS Integers, Sequences, FiniteSets, TLC

VARIABLES
    \* --- codec ---
    cpc,        \* position of the codec caller: start, marshalled, unmarshalled, compared
    gid,        \* the GlobalItemID that is marshalled
    encoded,    \* Marshal(gid)
    data,       \* the byte string handed to UnMarshal
    recv,       \* the receiver of UnMarshal (a zero GlobalItemID before the call)
    uerr,       \* the error UnMarshal returned
    other,      \* the second id of a comparison
    cmp,        \* bytes.Compare(Marshal(gid), Marshal(other))
    \* --- block database ---
    blocks,     \* the blocks that exist: records [id, slot]
    nextBlockID,\* the id the next new block gets (ids are never reused)
    leases,     \* block id -> number of delegates of the block not yet closed
    \* --- series and its callers ---
    series,     \* the series object: [id, shardID]
    pc,         \* caller -> "idle", or "create": inside Series.Create, between
                \* its probe and its call of blockDB.create
    cur,        \* caller -> the frame of the Create in progress
    hist,       \* caller -> the calls that returned to it, oldest first
    calls,      \* number of Series calls started so far
    gets,       \* caller -> the Get calls that returned to it, oldest first
    \* --- the surroundings of the series ---
    closeFaults,\* whether Close of a delegate can fail (fixed from the start)
    ctxDone,    \* caller -> whether the context it passes to its calls is cancelled
    \* --- the channel source (pkg/flow/streaming/sources/channel.go) ---
    inCh,       \* s.in: [valid, buf, closed, made]; buf holds the values sent
                \* and not yet received, made counts the values sent so far
    outCh,      \* s.out: [buf, closes]; closes counts the close(s.out) calls
    rpc,        \* the run goroutine: "none" (not started), "recv" (at
                \* chanVal.Recv), "select" (at the select), "done" (returned)
    val,        \* the value run received last
    wg,         \* s.ComponentState: [count, adds, dones], the WaitGroup
    srcCtx,     \* whether the context passed to Setup is cancelled
    srcLog,     \* [received, sent, setupErr, torn]: the values run received,
                \* the records it sent, what Setup returned, whether Teardown returned
    \* --- the gRPC server (banyand/liaison/grpc/server.go) ---
    ser,        \* s.ser, the gRPC server: [made, listen, lis, quit, busy, stops,
                \* gstops, serveCalls, serveRet]
    servePc,    \* the goroutine of Serve: "none" (Serve not called), "listen"
                \* (before net.Listen), "serving" (inside s.ser.Serve), "done"
    stopCh,     \* s.stopCh: [made, closes, by, seen]; by lists who closed it, seen
                \* is whether the caller of Serve has received from it
    gs,         \* Server.GracefulStop: [pc, g, stopped, outcome]; pc is the
                \* caller ("none", "select", "returned"), g its goroutine
                \* ("none", "start", "waiting", "closed"), stopped counts the
                \* closes of the stopped channel
    timer       \* t of GracefulStop: "off", "running", "fired", "stopped"

codecVars == <<cpc, gid, encoded, data, recv, uerr, other, cmp>>

dbVars == <<blocks, nextBlockID, leases>>

seriesVars == <<series, pc, cur, hist, calls, gets>>

envVars == <<closeFaults, ctxDone>>

sourceVars == <<inCh, outCh, rpc, val, wg, srcCtx, srcLog>>

serverVars == <<ser, servePc, stopCh, gs, timer>>

vars == <<codecVars, dbVars, seriesVars, envVars, sourceVars, serverVars>>

Nil == "nil"

ErrEmptySeriesSpan == "there is no data in such time range"

ErrItemIDMalformed == "serialized item id is malformed"

ErrBlockAbsent == "block is absent"

----------------------------------------------------------------------------
(* pkg/convert: fixed-width big-endian conversions.                         *)

Byte == 0..255

Uint16ToBytes(v) == <<v \div 256, v % 256>>

Uint32ToBytes(v) == Uint16ToBytes(v[1]) \o Uint16ToBytes(v[2])

Uint64ToBytes(v) ==
    Uint16ToBytes(v[1]) \o Uint16ToBytes(v[2]) \o Uint16ToBytes(v[3]) \o Uint16ToBytes(v[4])

\* binary.BigEndian.UintN reads the first N/8 bytes of b and ignores the rest
BytesToUint16(b) == b[1] * 256 + b[2]

BytesToUint32(b) == <<b[1] * 256 + b[2], b[3] * 256 + b[4]>>

BytesToUint64(b) ==
    <<b[1] * 256 + b[2], b[3] * 256 + b[4], b[5] * 256 + b[6], b[7] * 256 + b[8]>>

----------------------------------------------------------------------------
(* GlobalItemID                                                             *)

ZeroID ==
    [ShardID |-> <<0, 0>>, segID |-> 0, blockID |-> 0,
     SeriesID |-> <<0, 0, 0, 0>>, ID |-> <<0, 0, 0, 0>>]

\* a plausible slip: the shard written as two bytes only
MarshalShortShard(i) ==
    Uint16ToBytes(i.ShardID[2]) \o Uint16ToBytes(i.segID) \o Uint16ToBytes(i.blockID)
        \o Uint64ToBytes(i.SeriesID) \o Uint64ToBytes(i.ID)

\* a plausible slip: the item id written before the series id
MarshalItemFirst(i) ==
    Uint32ToBytes(i.ShardID) \o Uint16ToBytes(i.segID) \o Uint16ToBytes(i.blockID)
        \o Uint64ToBytes(i.ID) \o Uint64ToBytes(i.SeriesID)

Marshal(i) ==
    Uint32ToBytes(i.ShardID) \o Uint16ToBytes(i.segID) \o Uint16ToBytes(i.blockID)
        \o Uint64ToBytes(i.SeriesID) \o Uint64ToBytes(i.ID)

\* data[lo:hi] of Go, 0-based and half-open
Slice(d, lo, hi) == SubSeq(d, lo + 1, hi)

\* a plausible slip: only too short an input is refused
UnMarshalAtLeast(i, d) ==
    IF Len(d) < 4 + 2 + 2 + 8 + 8
    THEN [err |-> ErrItemIDMalformed, id |-> i]
    ELSE [err |-> Nil,
          id  |-> [ShardID  |-> BytesToUint32(Slice(d, 0, 4)),
                   segID    |-> BytesToUint16(Slice(d, 4, 6)),
                   blockID  |-> BytesToUint16(Slice(d, 6, 8)),
                   SeriesID |-> BytesToUint64(Slice(d, 8, 16)),
                   ID       |-> BytesToUint64(Slice(d, 16, Len(d)))]]

\* a plausible slip: one "offset += 2" forgotten, the block read where the
\* segment is
UnMarshalStaleOffset(i, d) ==
    IF Len(d) # 4 + 2 + 2 + 8 + 8
    THEN [err |-> ErrItemIDMalformed, id |-> i]
    ELSE [err |-> Nil,
          id  |-> [ShardID  |-> BytesToUint32(Slice(d, 0, 4)),
                   segID    |-> BytesToUint16(Slice(d, 4, 6)),
                   blockID  |-> BytesToUint16(Slice(d, 4, 6)),
                   SeriesID |-> BytesToUint64(Slice(d, 8, 16)),
                   ID       |-> BytesToUint64(Slice(d, 16, Len(d)))]]

\* the result of i.UnMarshal(d): the error, and the receiver afterwards
UnMarshal(i, d) ==
    IF Len(d) # 4 + 2 + 2 + 8 + 8
    THEN [err |-> ErrItemIDMalformed, id |-> i]
    ELSE [err |-> Nil,
          id  |-> [ShardID  |-> BytesToUint32(Slice(d, 0, 4)),
                   segID    |-> BytesToUint16(Slice(d, 4, 6)),
                   blockID  |-> BytesToUint16(Slice(d, 6, 8)),
                   SeriesID |-> BytesToUint64(Slice(d, 8, 16)),
                   ID       |-> BytesToUint64(Slice(d, 16, Len(d)))]]

\* bytes.Compare: -1, 0 or 1 by the first differing byte, a proper prefix
\* being smaller
RECURSIVE BytesCompare(_, _)
BytesCompare(x, y) ==
    IF x = <<>> /\ y = <<>> THEN 0
    ELSE IF x = <<>> THEN -1
    ELSE IF y = <<>> THEN 1
    ELSE IF Head(x) < Head(y) THEN -1
    ELSE IF Head(x) > Head(y) THEN 1
    ELSE BytesCompare(Tail(x), Tail(y))

----------------------------------------------------------------------------
(* The ids and byte strings the codec is exercised on.                      *)

\* how many bytes beyond 24 an over-long input may have
MaxExtra == 2

ShardSamples == {<<0, 7>>, <<0, 1792>>, <<7, 0>>, <<65535, 65535>>}

SeriesSamples == {<<0, 0, 0, 0>>, <<0, 0, 57005, 48879>>, <<256, 0, 0, 1>>}

ItemSamples == {<<258, 772, 1286, 1800>>, <<0, 0, 0, 1>>, <<1, 0, 0, 0>>}

IDs ==
    [ShardID : ShardSamples, segID : {3, 256}, blockID : {11, 256, 65535},
     SeriesID : SeriesSamples, ID : ItemSamples]

\* the id of scenario S1: (7, 3, 11, 0xDEADBEEF, 0x0102030405060708)
S1ID ==
    [ShardID |-> <<0, 7>>, segID |-> 3, blockID |-> 11,
     SeriesID |-> <<0, 0, 57005, 48879>>, ID |-> <<258, 772, 1286, 1800>>]

PadBytes == {0, 255}

RECURSIVE Pad(_, _)
Pad(b, n) == IF n = 0 THEN <<>> ELSE <<b>> \o Pad(b, n - 1)

\* byte strings made from an encoding e: e itself, its proper prefixes (the
\* empty string among them), e with one byte overwritten, and e with up to
\* MaxExtra bytes appended
Inputs(e) ==
    {SubSeq(e, 1, n) : n \in 0..Len(e)}
        \cup {[e EXCEPT ![k] = 255 - e[k]] : k \in 1..Len(e)}
        \cup {e \o Pad(b, n) : b \in PadBytes, n \in 1..MaxExtra}

----------------------------------------------------------------------------
(* The codec caller: marshal an id, then unmarshal some byte string or      *)
(* compare the encoding with that of a second id.                           *)

CodecStart ==
    /\ cpc = "start"
    /\ gid \in IDs
    /\ encoded = <<>>
    /\ data = <<>>
    /\ recv = ZeroID
    /\ uerr = Nil
    /\ other = ZeroID
    /\ cmp = 0

MarshalCall ==
    /\ cpc = "start"
    /\ encoded' = Marshal(gid)
    /\ cpc' = "marshalled"
    /\ UNCHANGED <<gid, data, recv, uerr, other, cmp, dbVars, seriesVars, envVars, sourceVars, serverVars>>

UnMarshalCall ==
    /\ cpc = "marshalled"
    /\ \E d \in Inputs(encoded) :
          /\ data' = d
          /\ recv' = UnMarshal(recv, d).id
          /\ uerr' = UnMarshal(recv, d).err
    /\ cpc' = "unmarshalled"
    /\ UNCHANGED <<gid, encoded, other, cmp, dbVars, seriesVars, envVars, sourceVars, serverVars>>

CompareCall ==
    /\ cpc = "marshalled"
    /\ \E b \in IDs :
          /\ other' = b
          /\ cmp' = BytesCompare(encoded, Marshal(b))
    /\ cpc' = "compared"
    /\ UNCHANGED <<gid, encoded, data, recv, uerr, dbVars, seriesVars, envVars, sourceVars, serverVars>>

CodecNext == MarshalCall \/ UnMarshalCall \/ CompareCall

----------------------------------------------------------------------------
(* Time and time ranges (pkg/timestamp).                                    *)

\* the last point of time of the model
MaxTime == 2

\* the length of the window of time one block covers
BlockLen == 1

Times == 0..MaxTime

NewTimeRange(start, end, includeStart, includeEnd) ==
    [Start |-> start, End |-> end, IncludeStart |-> includeStart, IncludeEnd |-> includeEnd]

NewInclusiveTimeRange(start, end) == NewTimeRange(start, end, TRUE, TRUE)

\* the points of time in a range
Points(tr) ==
    {t \in Times : /\ (tr.Start < t \/ (tr.IncludeStart /\ tr.Start = t))
                   /\ (t < tr.End \/ (tr.IncludeEnd /\ tr.End = t))}

\* the ranges a caller asks Span for
Ranges ==
    {tr \in {NewInclusiveTimeRange(a, b) : a \in Times, b \in Times} : tr.Start <= tr.End}

----------------------------------------------------------------------------
(* The block database (the blockDatabase interface the series calls).  A    *)
(* block covers one window of BlockLen points; a delegate is a lease on a   *)
(* block and is written as the block's record.                              *)

ErrUpstream == "upstream-io"

Slots == {t \div BlockLen : t \in Times}

Covered(b) == {t \in Times : t \div BlockLen = b.slot}

NoBlock == [id |-> 0, slot |-> -1]

\* the blocks of set bs in ascending order of time (slot, then id)
RECURSIVE Ascending(_)
Ascending(bs) ==
    IF bs = {} THEN <<>>
    ELSE LET first == CHOOSE b \in bs : \A c \in bs :
                          b.slot < c.slot \/ (b.slot = c.slot /\ b.id <= c.id)
         IN  <<first>> \o Ascending(bs \ {first})

\* blockDB.span(tr): every block whose window meets tr, in ascending order
dbSpan(tr) == Ascending({b \in blocks : Covered(b) \cap Points(tr) # {}})

\* blockDB.create(t): the block covering t, made when there is none
dbExisting(t) == {b \in blocks : t \in Covered(b)}

dbCreate(t) ==
    IF dbExisting(t) # {}
    THEN CHOOSE b \in dbExisting(t) : TRUE
    ELSE [id |-> nextBlockID, slot |-> t \div BlockLen]

\* blockDB.block(id): the block the id addresses, nil (NoBlock) when there is
\* none (any more); a segment of the model holds the one block of its window
dbBlock(id) ==
    LET found == {b \in blocks : b.slot = id.segID /\ b.id = id.blockID}
    IN  IF found = {} THEN NoBlock ELSE CHOOSE b \in found : TRUE

\* b.dataReader(): the reader over the data of block b
dataReader(b) == [block |-> b.id]

\* one more lease on each block of the sequence ds
RECURSIVE Acquire(_, _)
Acquire(l, ds) ==
    IF ds = <<>> THEN l
    ELSE Acquire([l EXCEPT ![Head(ds).id] = @ + 1], Tail(ds))

\* one lease less on each block of the sequence ds
RECURSIVE Release(_, _)
Release(l, ds) ==
    IF ds = <<>> THEN l
    ELSE Release([l EXCEPT ![Head(ds).id] = @ - 1], Tail(ds))

\* the number of blocks removed so far
Removed == (nextBlockID - 1) - Cardinality(blocks)

----------------------------------------------------------------------------
(* series and seriesSpan                                                    *)

\* the number of Series calls the callers make in all
MaxCalls == 2

Procs == {"p1", "p2"}

\* the block database the series of the model is made over
TheBlockDB == "blockDB"

newSeries(id, shardID) == [id |-> id, shardID |-> shardID, blockDB |-> TheBlockDB]

\* a plausible slip: Create writing to a field of its receiver
SeriesAfterCreateWrites(s, method) ==
    IF method = "Create" THEN [s EXCEPT !.shardID = <<0, 0>>] ELSE s

\* the series after a call of one of its methods: ID, Span, Create and Get
\* read s.id, s.shardID, s.blockDB and s.l and assign to none of them
SeriesAfter(s, method) == s

newSeriesSpan(timeRange, bs, id, shardID) ==
    [blocks |-> bs, seriesID |-> id, shardID |-> shardID, timeRange |-> timeRange]

\* a nil *seriesSpan
NilSpan == [nil |-> TRUE]

Returned(span, err) == [span |-> span, err |-> err]

\* a plausible slip: the check for an empty result left out
SpanNoEmptyCheck(s, r, timeRange) ==
    IF r.err # Nil THEN Returned(NilSpan, r.err)
    ELSE Returned(newSeriesSpan(timeRange, r.blocks, s.id, s.shardID), Nil)

\* a plausible slip: "len(blocks) < 2" for "len(blocks) < 1"
SpanEmptyBelowTwo(s, r, timeRange) ==
    IF r.err # Nil THEN Returned(NilSpan, r.err)
    ELSE IF Len(r.blocks) < 2 THEN Returned(NilSpan, ErrEmptySeriesSpan)
    ELSE Returned(newSeriesSpan(timeRange, r.blocks, s.id, s.shardID), Nil)

\* what Span returns when s.blockDB.span returned r = [blocks, err]
Span(s, r, timeRange) ==
    IF r.err # Nil THEN Returned(NilSpan, r.err)
    ELSE IF Len(r.blocks) < 1 THEN Returned(NilSpan, ErrEmptySeriesSpan)
    ELSE Returned(newSeriesSpan(timeRange, r.blocks, s.id, s.shardID), Nil)

\* a plausible slip: the range made with its end excluded
CreateRangeHalfOpen(t) == NewTimeRange(t, t, TRUE, FALSE)

\* the range Create probes with and gives its span
CreateRange(t) == NewInclusiveTimeRange(t, t)

\* a plausible slip: the early return on a non-empty probe left out
CreateProbedNoEarlyReturn(s, r, tr) ==
    IF r.err # Nil THEN [more |-> FALSE, ret |-> Returned(NilSpan, r.err)]
    ELSE [more |-> TRUE, ret |-> Returned(NilSpan, Nil)]

\* a plausible slip: "len(blocks) > 1" for "len(blocks) > 0"
CreateProbedOffByOne(s, r, tr) ==
    IF r.err # Nil THEN [more |-> FALSE, ret |-> Returned(NilSpan, r.err)]
    ELSE IF Len(r.blocks) > 1
    THEN [more |-> FALSE,
          ret  |-> Returned(newSeriesSpan(tr, r.blocks, s.id, s.shardID), Nil)]
    ELSE [more |-> TRUE, ret |-> Returned(NilSpan, Nil)]

\* a plausible slip: an empty probe answered as Span answers it
CreateProbedLikeSpan(s, r, tr) ==
    IF r.err # Nil THEN [more |-> FALSE, ret |-> Returned(NilSpan, r.err)]
    ELSE IF Len(r.blocks) > 0
    THEN [more |-> FALSE,
          ret  |-> Returned(newSeriesSpan(tr, r.blocks, s.id, s.shardID), Nil)]
    ELSE [more |-> FALSE, ret |-> Returned(NilSpan, ErrEmptySeriesSpan)]

\* a plausible slip: a failed probe taken for an empty one, and the block
\* created all the same
CreateProbedIgnoresError(s, r, tr) ==
    IF r.err = Nil /\ Len(r.blocks) > 0
    THEN [more |-> FALSE,
          ret  |-> Returned(newSeriesSpan(tr, r.blocks, s.id, s.shardID), Nil)]
    ELSE [more |-> TRUE, ret |-> Returned(NilSpan, Nil)]

\* Create after its probe s.blockDB.span(tr) returned r: it returns ret, or
\* goes on (more) to call s.blockDB.create
CreateProbed(s, r, tr) ==
    IF r.err # Nil THEN [more |-> FALSE, ret |-> Returned(NilSpan, r.err)]
    ELSE IF Len(r.blocks) > 0
    THEN [more |-> FALSE,
          ret  |-> Returned(newSeriesSpan(tr, r.blocks, s.id, s.shardID), Nil)]
    ELSE [more |-> TRUE, ret |-> Returned(NilSpan, Nil)]

\* a plausible slip: the new delegate not appended
CreateCreatedNoAppend(s, bs, c, tr) ==
    IF c.err # Nil THEN Returned(NilSpan, c.err)
    ELSE Returned(newSeriesSpan(tr, bs, s.id, s.shardID), Nil)

\* Create after s.blockDB.create returned c = [block, err]; bs is the (empty)
\* list the probe returned
CreateCreated(s, bs, c, tr) ==
    IF c.err # Nil THEN Returned(NilSpan, c.err)
    ELSE Returned(newSeriesSpan(tr, Append(bs, c.block), s.id, s.shardID), Nil)

\* context.Background()
Background == "background"

\* a plausible slip: the caller's context handed on to newSeriesSpan
SpanContextOfCaller(ctx) == ctx

\* the context Span and Create hand to newSeriesSpan when the caller passed
\* ctx: context.WithValue(context.Background(), logger.ContextKey, s.l)
SpanContext(ctx) == Background

\* multierr.Append(left, right), right being the error of one delegate.  The
\* error of Close is written as the list multierr.Errors gives for it: <<>>
\* for nil, one element for a plain error
multierrAppend(left, right) == IF right = Nil THEN left ELSE Append(left, right)

ErrClose(b) == "close of block " \o ToString(b.id) \o " failed"

\* delegate.Close() of a delegate of block b
delegateClose(b, fails) == IF fails THEN ErrClose(b) ELSE Nil

\* a plausible slip: the loop left at the first failure
RECURSIVE CloseFromStopAtError(_, _, _, _)
CloseFromStopAtError(bs, k, failing, acc) ==
    IF k > Len(bs) \/ acc.err # <<>> THEN acc
    ELSE CloseFromStopAtError(bs, k + 1, failing,
                   [err   |-> multierrAppend(acc.err, delegateClose(bs[k], k \in failing)),
                    calls |-> Append(acc.calls, bs[k])])

\* a plausible slip: "err = delegate.Close()", each failure put in the place
\* of the one before
RECURSIVE CloseFromLastError(_, _, _, _)
CloseFromLastError(bs, k, failing, acc) ==
    IF k > Len(bs) THEN acc
    ELSE CloseFromLastError(bs, k + 1, failing,
                   [err   |-> IF k \in failing
                              THEN <<delegateClose(bs[k], TRUE)>> ELSE acc.err,
                    calls |-> Append(acc.calls, bs[k])])

\* the loop of seriesSpan.Close from the k-th delegate of bs on; failing is
\* the set of positions whose Close fails; acc holds err and the Close calls
\* made so far
RECURSIVE CloseFrom(_, _, _, _)
CloseFrom(bs, k, failing, acc) ==
    IF k > Len(bs) THEN acc
    ELSE CloseFrom(bs, k + 1, failing,
                   [err   |-> multierrAppend(acc.err, delegateClose(bs[k], k \in failing)),
                    calls |-> Append(acc.calls, bs[k])])

\* seriesSpan.Close(): the error it returns and the delegates it called Close
\* on, in the order of the calls
Close(span, failing) == CloseFrom(span.blocks, 1, failing, [err |-> <<>>, calls |-> <<>>])

\* a nil Item
NilItem == [nil |-> TRUE]

\* errors.WithMessagef(err, format, arg): err annotated with a message
WithMessagef(err, format, arg) == [cause |-> err, format |-> format, arg |-> arg]

\* series.ID()
ID(s) == s.id

\* a plausible slip: the item tagged with the series of the address
GetSeriesOfAddress(s, r, id) ==
    IF r.err # Nil
    THEN [item |-> NilItem, closer |-> NoBlock, err |-> r.err, nClose |-> 0]
    ELSE IF r.block = NoBlock
    THEN [item |-> NilItem, closer |-> NoBlock,
          err |-> WithMessagef(ErrBlockAbsent, "id: %v", id), nClose |-> 0]
    ELSE [item   |-> [data |-> dataReader(r.block), itemID |-> id.ID,
                      seriesID |-> id.SeriesID],
          closer |-> r.block, err |-> Nil, nClose |-> 0]

\* a plausible slip: the delegate closed by Get itself ("defer b.Close()")
GetClosesDelegate(s, r, id) ==
    IF r.err # Nil
    THEN [item |-> NilItem, closer |-> NoBlock, err |-> r.err, nClose |-> 0]
    ELSE IF r.block = NoBlock
    THEN [item |-> NilItem, closer |-> NoBlock,
          err |-> WithMessagef(ErrBlockAbsent, "id: %v", id), nClose |-> 0]
    ELSE [item   |-> [data |-> dataReader(r.block), itemID |-> id.ID, seriesID |-> s.id],
          closer |-> r.block, err |-> Nil, nClose |-> 1]

\* a plausible slip: the check for a nil delegate left out
GetNoNilCheck(s, r, id) ==
    IF r.err # Nil
    THEN [item |-> NilItem, closer |-> NoBlock, err |-> r.err, nClose |-> 0]
    ELSE [item   |-> [data |-> dataReader(r.block), itemID |-> id.ID, seriesID |-> s.id],
          closer |-> r.block, err |-> Nil, nClose |-> 0]

\* what Get returns when s.blockDB.block(ctx, id) returned r = [block, err];
\* a nil delegate and a nil closer are written NoBlock.  nClose is the number
\* of Close calls Get itself makes on the delegate.
Get(s, r, id) ==
    IF r.err # Nil
    THEN [item |-> NilItem, closer |-> NoBlock, err |-> r.err, nClose |-> 0]
    ELSE IF r.block = NoBlock
    THEN [item |-> NilItem, closer |-> NoBlock,
          err |-> WithMessagef(ErrBlockAbsent, "id: %v", id), nClose |-> 0]
    ELSE [item   |-> [data |-> dataReader(r.block), itemID |-> id.ID, seriesID |-> s.id],
          closer |-> r.block, err |-> Nil, nClose |-> 0]

\* the record of a call that returned (a call removes no block, so Removed is
\* the same before and after it)
\* ctx is the context the caller passed; closeCalls and closeErr are filled
\* in when the span is closed
CallRecord(op, ctx, t, probe, nCreate, cres, made, ret) ==
    [op |-> op, t |-> t, probe |-> probe, nCreate |-> nCreate,
     cres |-> cres, made |-> made, ret |-> ret, closed |-> FALSE,
     removedAtRet |-> Removed,
     ctx |-> ctx, spanCtx |-> SpanContext(ctx),
     closeFailed |-> {}, closeCalls |-> <<>>, closeErr |-> <<>>, nClose |-> 0]

NoCreate == [block |-> NoBlock, err |-> Nil]

NoFrame ==
    [t |-> -1, tr |-> NewInclusiveTimeRange(-1, -1), probe |-> [blocks |-> <<>>, err |-> Nil]]

\* the block database a series is made over: one block for every window,
\* numbered from 1 in the order of time, none of them leased (Compact removes
\* blocks, so every smaller database is reached from it)
InitialBlocks == {[id |-> k + 1, slot |-> k] : k \in Slots}

SeriesStartOver(bs) ==
    /\ blocks = bs
    /\ nextBlockID = Cardinality(bs) + 1
    /\ leases = [i \in 1..(Cardinality(Slots) + MaxCalls) |-> 0]
    /\ series = newSeries(<<0, 0, 0, 9>>, <<0, 7>>)
    /\ pc = [p \in Procs |-> "idle"]
    /\ cur = [p \in Procs |-> NoFrame]
    /\ hist = [p \in Procs |-> <<>>]
    /\ calls = 0
    /\ gets = [p \in Procs |-> <<>>]
    /\ ctxDone = [p \in Procs |-> FALSE]

SeriesStart == SeriesStartOver(InitialBlocks) /\ closeFaults = FALSE

\* Series.Span(ctx, timeRange), one step: its only block database call
SpanCall(p) ==
    /\ pc[p] = "idle"
    /\ calls < MaxCalls
    /\ \E tr \in Ranges, fail \in BOOLEAN :
          LET r   == IF fail THEN [blocks |-> <<>>, err |-> ErrUpstream]
                     ELSE [blocks |-> dbSpan(tr), err |-> Nil]
              ret == Span(series, r, tr)
          IN  /\ leases' = Acquire(leases, r.blocks)
              /\ hist' = [hist EXCEPT ![p] =
                    Append(@, CallRecord("Span", p, -1, r, 0, NoCreate, 0, ret))]
    /\ calls' = calls + 1
    /\ series' = SeriesAfter(series, "Span")
    /\ UNCHANGED <<codecVars, sourceVars, serverVars, envVars, blocks, nextBlockID, pc, cur, gets>>

\* Series.Create(ctx, t) up to the return of its probe s.blockDB.span(tr)
CreateProbe(p) ==
    /\ pc[p] = "idle"
    /\ calls < MaxCalls
    /\ \E t \in Times, fail \in BOOLEAN :
          LET tr  == CreateRange(t)
              r   == IF fail THEN [blocks |-> <<>>, err |-> ErrUpstream]
                     ELSE [blocks |-> dbSpan(tr), err |-> Nil]
              res == CreateProbed(series, r, tr)
          IN  /\ leases' = Acquire(leases, r.blocks)
              /\ IF res.more
                 THEN /\ pc' = [pc EXCEPT ![p] = "create"]
                      /\ cur' = [cur EXCEPT ![p] = [t |-> t, tr |-> tr, probe |-> r]]
                      /\ hist' = hist
                 ELSE /\ hist' = [hist EXCEPT ![p] =
                            Append(@, CallRecord("Create", p, t, r, 0, NoCreate, 0, res.ret))]
                      /\ UNCHANGED <<pc, cur>>
    /\ calls' = calls + 1
    /\ series' = SeriesAfter(series, "Create")
    /\ UNCHANGED <<codecVars, sourceVars, serverVars, envVars, blocks, nextBlockID, gets>>

\* the rest of Series.Create: s.blockDB.create(ctx, t) and the return
CreateCall(p) ==
    /\ pc[p] = "create"
    /\ \E fail \in BOOLEAN :
          LET f    == cur[p]
              b    == dbCreate(f.t)
              made == IF b \in blocks THEN 0 ELSE 1
              c    == IF fail THEN [block |-> NoBlock, err |-> ErrUpstream]
                      ELSE [block |-> b, err |-> Nil]
              ret  == CreateCreated(series, f.probe.blocks, c, f.tr)
          IN  /\ IF fail
                 THEN UNCHANGED <<blocks, nextBlockID, leases>>
                 ELSE /\ blocks' = blocks \cup {b}
                      /\ nextBlockID' = nextBlockID + made
                      /\ leases' = Acquire(leases, <<b>>)
              /\ hist' = [hist EXCEPT ![p] =
                    Append(@, CallRecord("Create", p, f.t, f.probe, 1, c,
                                         IF fail THEN 0 ELSE made, ret))]
    /\ pc' = [pc EXCEPT ![p] = "idle"]
    /\ cur' = [cur EXCEPT ![p] = NoFrame]
    /\ series' = SeriesAfter(series, "Create")
    /\ UNCHANGED <<codecVars, sourceVars, serverVars, envVars, calls, gets>>

\* the number of times a careless caller closes one span
MaxCloses == 2

\* a plausible slip: "s.blocks = nil" at the end of Close
SpanAfterCloseForgetsBlocks(span) == [span EXCEPT !.blocks = <<>>]

\* the span after its Close returned: Close reads s.blocks and assigns to no
\* field of s (seriesSpan has no field that says it was closed)
SpanAfterClose(span) == span

\* the sets of positions at which Close of a delegate can fail, for a span
\* of n delegates
Failing(n) == IF closeFaults THEN SUBSET (1..n) ELSE {{}}

\* seriesSpan.Close() on a span a caller holds and has not closed yet: Close
\* of the delegates, each call releasing the delegate's lease whether or not
\* it reports a failure
CloseCall(p) ==
    /\ \E i \in 1..Len(hist[p]) :
          /\ hist[p][i].ret.span # NilSpan
          /\ ~hist[p][i].closed
          /\ \E failing \in Failing(Len(hist[p][i].ret.span.blocks)) :
                LET res == Close(hist[p][i].ret.span, failing)
                IN  /\ hist' = [hist EXCEPT ![p][i].closed = TRUE,
                                            ![p][i].closeFailed = failing,
                                            ![p][i].closeCalls = res.calls,
                                            ![p][i].closeErr = res.err,
                                            ![p][i].nClose = 1,
                                            ![p][i].ret.span = SpanAfterClose(@)]
                    /\ leases' = Release(leases, res.calls)
    /\ UNCHANGED <<codecVars, sourceVars, serverVars, envVars, blocks, nextBlockID, series, pc, cur, calls, gets>>

\* seriesSpan.Close() once more on a span the caller closed before: the same
\* code runs on the same span
CloseAgain(p) ==
    /\ \E i \in 1..Len(hist[p]) :
          /\ hist[p][i].ret.span # NilSpan
          /\ hist[p][i].closed
          /\ hist[p][i].nClose < MaxCloses
          /\ \E failing \in Failing(Len(hist[p][i].ret.span.blocks)) :
                LET res == Close(hist[p][i].ret.span, failing)
                IN  /\ hist' = [hist EXCEPT ![p][i].closeFailed = failing,
                                            ![p][i].closeCalls = @ \o res.calls,
                                            ![p][i].closeErr = res.err,
                                            ![p][i].nClose = @ + 1,
                                            ![p][i].ret.span = SpanAfterClose(@)]
                    /\ leases' = Release(leases, res.calls)
    /\ UNCHANGED <<codecVars, sourceVars, serverVars, envVars, blocks, nextBlockID, series, pc, cur, calls, gets>>

\* the address of an item in block b, as a caller of Get holds it; the series
\* field of the address is the series' own for one window only
AddressIn(b) ==
    [ShardID |-> <<0, 7>>, segID |-> b.slot, blockID |-> b.id,
     SeriesID |-> <<0, 0, 0, 8 + b.slot>>, ID |-> <<0, 0, 1, b.id>>]

\* the ids the callers pass to Get: addresses in the blocks the series was
\* made over (a block may be gone when the call is made)
GetIDs == {AddressIn(b) : b \in InitialBlocks}

\* Series.Get(ctx, id), one step: its only block database call
GetCall(p) ==
    /\ pc[p] = "idle"
    /\ calls < MaxCalls
    /\ \E id \in GetIDs, fail \in BOOLEAN :
          LET r   == IF fail THEN [block |-> NoBlock, err |-> ErrUpstream]
                     ELSE [block |-> dbBlock(id), err |-> Nil]
              ret == Get(series, r, id)
              got == IF r.block = NoBlock THEN <<>> ELSE <<r.block>>
          IN  /\ leases' = Release(Acquire(leases, got),
                                   [k \in 1..ret.nClose |-> r.block])
              /\ gets' = [gets EXCEPT ![p] =
                    Append(@, [id |-> id, bres |-> r, ret |-> ret, closed |-> FALSE])]
    /\ calls' = calls + 1
    /\ series' = SeriesAfter(series, "Get")
    /\ UNCHANGED <<codecVars, sourceVars, serverVars, envVars, blocks, nextBlockID, pc, cur, hist>>

\* Series.ID(): it returns ID(series) and makes no block-database call
IDCall(p) ==
    /\ pc[p] = "idle"
    /\ series' = SeriesAfter(series, "ID")
    /\ UNCHANGED <<codecVars, sourceVars, serverVars, envVars, dbVars, pc, cur, hist, calls, gets>>

\* Close() of the closer a Get returned, which is the delegate itself: it
\* releases the delegate's lease
CloserCall(p) ==
    /\ \E i \in 1..Len(gets[p]) :
          /\ gets[p][i].ret.closer # NoBlock
          /\ ~gets[p][i].closed
          /\ gets' = [gets EXCEPT ![p][i].closed = TRUE]
          /\ leases' = Release(leases, <<gets[p][i].ret.closer>>)
    /\ UNCHANGED <<codecVars, sourceVars, serverVars, envVars, blocks, nextBlockID, series, pc, cur, hist, calls>>

\* the span of record r was constructed under context ctx and is open
Reached(ctx, r) == r.ret.span # NilSpan /\ ~r.closed /\ r.spanCtx = ctx

\* the delegates of the spans in h that the cancellation of ctx reaches
RECURSIVE ReachedDelegates(_, _)
ReachedDelegates(ctx, h) ==
    IF h = <<>> THEN <<>>
    ELSE (IF Reached(ctx, Head(h)) THEN Head(h).ret.span.blocks ELSE <<>>)
         \o ReachedDelegates(ctx, Tail(h))

\* the leases l less those of the spans of the callers ps that the
\* cancellation of ctx reaches
RECURSIVE ReleaseReached(_, _, _)
ReleaseReached(ctx, ps, l) ==
    IF ps = {} THEN l
    ELSE LET q == CHOOSE x \in ps : TRUE
         IN  ReleaseReached(ctx, ps \ {q}, Release(l, ReachedDelegates(ctx, hist[q])))

\* caller p cancels the context it passes to its calls.  The cancellation
\* ends what was constructed under that context: a span constructed under it
\* would be closed and its delegates released.  (The block-database calls of
\* p that follow may fail or not, as at any time.)
Cancel(p) ==
    /\ ~ctxDone[p]
    /\ ctxDone' = [ctxDone EXCEPT ![p] = TRUE]
    /\ hist' = [q \in Procs |->
                  [i \in 1..Len(hist[q]) |->
                      IF Reached(p, hist[q][i])
                      THEN [hist[q][i] EXCEPT !.closed = TRUE]
                      ELSE hist[q][i]]]
    /\ leases' = ReleaseReached(p, Procs, leases)
    /\ UNCHANGED <<codecVars, sourceVars, serverVars, closeFaults, blocks, nextBlockID, series, pc, cur, calls, gets>>

\* the block database removes a block nobody holds a lease on
Compact ==
    /\ \E b \in blocks :
          /\ leases[b.id] = 0
          /\ blocks' = blocks \ {b}
    /\ UNCHANGED <<codecVars, sourceVars, serverVars, nextBlockID, leases, seriesVars, envVars>>

CodecOff ==
    /\ cpc = "off"
    /\ gid = ZeroID
    /\ encoded = <<>>
    /\ data = <<>>
    /\ recv = ZeroID
    /\ uerr = Nil
    /\ other = ZeroID
    /\ cmp = 0

----------------------------------------------------------------------------
(* The channel source: sourceChan of pkg/flow/streaming/sources/channel.go. *)
(* The values sent into s.in are 1, 2, ... in this order, so that a value   *)
(* is known by its place.                                                   *)

\* the number of values the producer sends into s.in
MaxIn == 3

\* the capacity of s.in
InCap == 1

\* the capacity of s.out in the model (1024 in NewChannel)
OutCap == 1

ErrInvalidChannel == "invalid channel"

\* flow.TryExactTimestamp(v): the record of element v, which carries its own
\* timestamp
TryExactTimestamp(v) == [ts |-> 100 + v, data |-> v]

\* chanVal.Recv() on channel c: whether it returns now (ready), the value and
\* open as it returns them, and the buffer it leaves
Recv(c) ==
    IF c.buf # <<>>
    THEN [ready |-> TRUE, val |-> Head(c.buf), open |-> TRUE, rest |-> Tail(c.buf)]
    ELSE [ready |-> c.closed, val |-> 0, open |-> FALSE, rest |-> <<>>]

\* sync.WaitGroup of flow.ComponentState
WgAdd(w, n) == [w EXCEPT !.count = @ + n, !.adds = @ + 1]

WgDone(w) == [w EXCEPT !.count = @ - 1, !.dones = @ + 1]

\* what Setup does with s.in: "error" when reflect.ValueOf(s.in) is not
\* valid, else "go" (s.Add(1) and go s.run)
SetupOf(c) == IF ~c.valid THEN "error" ELSE "go"

\* where run goes after chanVal.Recv() returned open
AfterRecv(open) == IF ~open THEN "return" ELSE "select"

\* the cases of the select that can proceed: the send when s.out has room,
\* ctx.Done() when the context is cancelled
SelectReady(o, done) ==
    {"send" : x \in {1} \cap {k \in {1} : Len(o.buf) < OutCap}} \cup
    {"done" : x \in {1} \cap {k \in {1} : done}}

AfterSelectContinue(case) == "recv"

\* where run goes after a case of the select was taken
AfterSelect(case) == IF case = "done" THEN "return" ELSE "recv"

DeferredNoDone(o, w) == [out |-> [o EXCEPT !.closes = @ + 1], wg |-> w]

\* the deferred function of run on s.out and the WaitGroup: cancel() (of the
\* context run derived for itself), close(s.out), s.Done()
Deferred(o, w) == [out |-> [o EXCEPT !.closes = @ + 1], wg |-> WgDone(w)]

SourceOff ==
    /\ inCh = [valid |-> TRUE, buf |-> <<>>, closed |-> FALSE, made |-> 0]
    /\ outCh = [buf |-> <<>>, closes |-> 0]
    /\ rpc = "none"
    /\ val = 0
    /\ wg = [count |-> 0, adds |-> 0, dones |-> 0]
    /\ srcCtx = FALSE
    /\ srcLog = [received |-> <<>>, sent |-> <<>>, setupErr |-> Nil, torn |-> FALSE]

\* a source as NewChannel returns it (s.in a channel), or one whose s.in holds
\* nothing
SourceStart ==
    /\ inCh \in {[valid |-> v, buf |-> <<>>, closed |-> FALSE, made |-> 0] : v \in BOOLEAN}
    /\ outCh = [buf |-> <<>>, closes |-> 0]
    /\ rpc = "none"
    /\ val = 0
    /\ wg = [count |-> 0, adds |-> 0, dones |-> 0]
    /\ srcCtx = FALSE
    /\ srcLog = [received |-> <<>>, sent |-> <<>>, setupErr |-> Nil, torn |-> FALSE]

\* the producer sends the next value into s.in
Produce ==
    /\ inCh.valid /\ ~inCh.closed
    /\ inCh.made < MaxIn
    /\ Len(inCh.buf) < InCap
    /\ inCh' = [inCh EXCEPT !.buf = Append(@, inCh.made + 1), !.made = @ + 1]
    /\ UNCHANGED <<outCh, rpc, val, wg, srcCtx, srcLog>>

\* the producer closes s.in
CloseIn ==
    /\ inCh.valid /\ ~inCh.closed
    /\ inCh' = [inCh EXCEPT !.closed = TRUE]
    /\ UNCHANGED <<outCh, rpc, val, wg, srcCtx, srcLog>>

\* sourceChan.Setup(ctx), called once
Setup ==
    /\ rpc = "none"
    /\ srcLog.setupErr = Nil
    /\ IF SetupOf(inCh) = "error"
       THEN /\ srcLog' = [srcLog EXCEPT !.setupErr = ErrInvalidChannel]
            /\ UNCHANGED <<rpc, wg>>
       ELSE /\ wg' = WgAdd(wg, 1)
            /\ rpc' = "recv"
            /\ srcLog' = srcLog
    /\ UNCHANGED <<inCh, outCh, val, srcCtx>>

\* run from chanVal.Recv() returning to the select, or to the end of run
RunRecv ==
    /\ rpc = "recv"
    /\ Recv(inCh).ready
    /\ inCh' = [inCh EXCEPT !.buf = Recv(inCh).rest]
    /\ IF AfterRecv(Recv(inCh).open) = "return"
       THEN /\ rpc' = "done"
            /\ outCh' = Deferred(outCh, wg).out
            /\ wg' = Deferred(outCh, wg).wg
            /\ UNCHANGED <<val, srcLog>>
       ELSE /\ rpc' = "select"
            /\ val' = Recv(inCh).val
            /\ srcLog' = [srcLog EXCEPT !.received = Append(@, Recv(inCh).val)]
            /\ UNCHANGED <<outCh, wg>>
    /\ UNCHANGED srcCtx

\* run from the select taking one of its cases to chanVal.Recv(), or to the
\* end of run
RunSelect ==
    /\ rpc = "select"
    /\ \E case \in SelectReady(outCh, srcCtx) :
          LET sent == IF case = "send"
                      THEN [outCh EXCEPT !.buf = Append(@, TryExactTimestamp(val))]
                      ELSE outCh
          IN  /\ srcLog' = IF case = "send"
                           THEN [srcLog EXCEPT !.sent = Append(@, TryExactTimestamp(val))]
                           ELSE srcLog
              /\ IF AfterSelect(case) = "return"
                 THEN /\ rpc' = "done"
                      /\ outCh' = Deferred(sent, wg).out
                      /\ wg' = Deferred(sent, wg).wg
                 ELSE /\ rpc' = "recv"
                      /\ outCh' = sent
                      /\ wg' = wg
    /\ UNCHANGED <<inCh, val, srcCtx>>

\* the consumer takes a record from s.Out()
Drain ==
    /\ outCh.buf # <<>>
    /\ outCh' = [outCh EXCEPT !.buf = Tail(@)]
    /\ UNCHANGED <<inCh, rpc, val, wg, srcCtx, srcLog>>

\* the context passed to Setup is cancelled
SourceCancel ==
    /\ ~srcCtx
    /\ srcCtx' = TRUE
    /\ UNCHANGED <<inCh, outCh, rpc, val, wg, srcLog>>

\* sourceChan.Teardown(ctx): s.Wait() returns when the WaitGroup is at zero
Teardown ==
    /\ ~srcLog.torn
    /\ wg.count = 0
    /\ srcLog' = [srcLog EXCEPT !.torn = TRUE]
    /\ UNCHANGED <<inCh, outCh, rpc, val, wg, srcCtx>>

----------------------------------------------------------------------------
(* The gRPC server of the liaison: Serve and GracefulStop of                *)
(* banyand/liaison/grpc/server.go, over a grpclib.Server.  Serve is called  *)
(* once on a Server, as run.Group calls it, and GracefulStop after it.      *)

\* the number of calls the gRPC server can have in flight
MaxRPC == 2

TheServeGoroutine == "serve"

\* grpclib.NewServer
NewServer ==
    [made |-> TRUE, listen |-> "none", lis |-> "none", quit |-> FALSE,
     busy |-> 0, stops |-> 0, gstops |-> 0, serveCalls |-> 0, serveRet |-> "none"]

NoServer == [NewServer EXCEPT !.made = FALSE]

\* grpclib.Server.Stop: closes the listeners and every connection
SerStop(g) ==
    [g EXCEPT !.quit = TRUE, !.busy = 0, !.stops = @ + 1,
              !.lis = IF @ = "open" THEN "closed" ELSE @]

\* grpclib.Server.GracefulStop as it begins: closes the listeners, then waits
\* for the calls in flight
SerGracefulBegin(g) ==
    [g EXCEPT !.quit = TRUE, !.gstops = @ + 1,
              !.lis = IF @ = "open" THEN "closed" ELSE @]

\* close(ch) by goroutine who
CloseChan(ch, who) == [ch EXCEPT !.closes = @ + 1, !.by = Append(@, who)]

AfterListenServeAnyway(ok) == "serve"

\* what the goroutine of Serve does after net.Listen: close(s.stopCh) and
\* return when it failed, else s.ser.Serve(lis)
AfterListen(ok) == IF ~ok THEN "close" ELSE "serve"

\* the cases of GracefulStop's select that can proceed
StopReady(t, g) ==
    {"timer" : x \in {k \in {1} : t = "fired"}} \cup
    {"stopped" : x \in {k \in {1} : g.stopped > 0}}

GracefulStopCaseAlwaysStop(case, g, t) ==
    [ser |-> SerStop(g), timer |-> t,
     outcome |-> IF case = "timer" THEN "force stopped" ELSE "stopped gracefully"]

\* the case of the select GracefulStop takes: s.ser.Stop() on the timer,
\* t.Stop() on stopped
GracefulStopCase(case, g, t) ==
    IF case = "timer"
    THEN [ser |-> SerStop(g), timer |-> t, outcome |-> "force stopped"]
    ELSE [ser |-> g, timer |-> IF t = "running" THEN "stopped" ELSE t,
          outcome |-> "stopped gracefully"]

ServerOff ==
    /\ ser = NoServer
    /\ servePc = "none"
    /\ stopCh = [made |-> FALSE, closes |-> 0, by |-> <<>>, seen |-> FALSE]
    /\ gs = [pc |-> "none", g |-> "none", stopped |-> 0, outcome |-> Nil]
    /\ timer = "off"

\* Server.Serve: the server, the stop channel, the goroutine started
ServeCall ==
    /\ servePc = "none"
    /\ ser' = NewServer
    /\ stopCh' = [made |-> TRUE, closes |-> 0, by |-> <<>>, seen |-> FALSE]
    /\ servePc' = "listen"
    /\ UNCHANGED <<gs, timer>>

\* the goroutine of Serve from net.Listen to inside s.ser.Serve(lis), or to
\* its return: when listening failed, and when the server was stopped before
\* (s.ser.Serve then returns an error at once)
ServeListen ==
    /\ servePc = "listen"
    /\ \E ok \in BOOLEAN :
          LET listened == [ser EXCEPT !.listen = IF ok THEN "ok" ELSE "err"]
          IN  IF AfterListen(ok) = "close"
              THEN /\ ser' = listened
                   /\ stopCh' = CloseChan(stopCh, TheServeGoroutine)
                   /\ servePc' = "done"
              ELSE IF ser.quit
                   THEN /\ ser' = [listened EXCEPT !.serveCalls = @ + 1, !.serveRet = "err"]
                        /\ stopCh' = CloseChan(stopCh, TheServeGoroutine)
                        /\ servePc' = "done"
                   ELSE /\ ser' = [listened EXCEPT !.serveCalls = @ + 1,
                                                   !.lis = IF ok THEN "open" ELSE "none"]
                        /\ stopCh' = stopCh
                        /\ servePc' = "serving"
    /\ UNCHANGED <<gs, timer>>

\* s.ser.Serve(lis) returns: nil after the listener was closed by Stop or
\* GracefulStop, an error when accepting failed; the goroutine closes
\* s.stopCh and ends
ServeReturn ==
    /\ servePc = "serving"
    /\ \E err \in BOOLEAN :
          /\ err <=> ser.lis = "open"
          /\ ser' = [ser EXCEPT !.serveRet = IF err THEN "err" ELSE "nil",
                                !.lis = IF @ = "open" THEN "closed" ELSE @]
    /\ stopCh' = CloseChan(stopCh, TheServeGoroutine)
    /\ servePc' = "done"
    /\ UNCHANGED <<gs, timer>>

\* the caller of Serve receives from the channel Serve returned, which
\* proceeds once the channel is closed
StopNotified ==
    /\ stopCh.made /\ ~stopCh.seen
    /\ stopCh.closes > 0
    /\ stopCh' = [stopCh EXCEPT !.seen = TRUE]
    /\ UNCHANGED <<ser, servePc, gs, timer>>

\* a client call arrives at the serving server
RPCBegin ==
    /\ servePc = "serving" /\ ser.lis = "open"
    /\ ser.busy < MaxRPC
    /\ ser' = [ser EXCEPT !.busy = @ + 1]
    /\ UNCHANGED <<servePc, stopCh, gs, timer>>

\* a client call ends
RPCEnd ==
    /\ ser.busy > 0
    /\ ser' = [ser EXCEPT !.busy = @ - 1]
    /\ UNCHANGED <<servePc, stopCh, gs, timer>>

\* Server.GracefulStop up to its select: the goroutine started, the timer set
GracefulStopCall ==
    /\ ser.made
    /\ gs.pc = "none"
    /\ gs' = [gs EXCEPT !.pc = "select", !.g = "start"]
    /\ timer' = "running"
    /\ UNCHANGED <<ser, servePc, stopCh>>

\* the goroutine of GracefulStop enters s.ser.GracefulStop()
GracefulBegin ==
    /\ gs.g = "start"
    /\ ser' = SerGracefulBegin(ser)
    /\ gs' = [gs EXCEPT !.g = "waiting"]
    /\ UNCHANGED <<servePc, stopCh, timer>>

\* s.ser.GracefulStop() returns, no call being in flight, and the goroutine
\* closes stopped
GracefulEnd ==
    /\ gs.g = "waiting"
    /\ ser.busy = 0
    /\ gs' = [gs EXCEPT !.g = "closed", !.stopped = @ + 1]
    /\ UNCHANGED <<ser, servePc, stopCh, timer>>

\* the timer of GracefulStop fires
TimerFire ==
    /\ timer = "running"
    /\ timer' = "fired"
    /\ UNCHANGED <<ser, servePc, stopCh, gs>>

\* the select of GracefulStop takes a case, and GracefulStop returns
GracefulStopSelect ==
    /\ gs.pc = "select"
    /\ \E case \in StopReady(timer, gs) :
          /\ ser' = GracefulStopCase(case, ser, timer).ser
          /\ timer' = GracefulStopCase(case, ser, timer).timer
          /\ gs' = [gs EXCEPT !.pc = "returned",
                              !.outcome = GracefulStopCase(case, ser, timer).outcome]
    /\ UNCHANGED <<servePc, stopCh>>

----------------------------------------------------------------------------
(* Specifications.                                                          *)

Init == CodecOff /\ SeriesStart /\ SourceOff /\ ServerOff

Next ==
    \/ \E p \in Procs : SpanCall(p)
    \/ \E p \in Procs : CreateProbe(p)
    \/ \E p \in Procs : CreateCall(p)
    \/ \E p \in Procs : CloseCall(p)
    \/ Compact

Spec == Init /\ [][Next]_vars

CodecInit == CodecStart /\ SeriesStart /\ SourceOff /\ ServerOff

SpecCodec == CodecInit /\ [][CodecNext]_vars

\* spans taken and closed over a block database whose delegates can fail on
\* Close
CloseInit == CodecOff /\ SeriesStartOver(InitialBlocks) /\ closeFaults = TRUE /\ SourceOff /\ ServerOff

NextClose ==
    \/ \E p \in Procs : SpanCall(p)
    \/ \E p \in Procs : CloseCall(p)

SpecClose == CloseInit /\ [][NextClose]_vars

\* spans taken by callers that may close a span more than once
RecloseInit == CodecOff /\ SeriesStartOver(InitialBlocks) /\ closeFaults = FALSE /\ SourceOff /\ ServerOff

NextReclose ==
    \/ \E p \in Procs : SpanCall(p)
    \/ \E p \in Procs : CloseCall(p)
    \/ \E p \in Procs : CloseAgain(p)

SpecReclose == RecloseInit /\ [][NextReclose]_vars

\* spans taken over a block database that starts empty, by callers that may
\* cancel their contexts
CancelInit == CodecOff /\ SeriesStartOver({}) /\ closeFaults = FALSE /\ SourceOff /\ ServerOff

NextCancel ==
    \/ \E p \in Procs : SpanCall(p)
    \/ \E p \in Procs : CreateProbe(p)
    \/ \E p \in Procs : CreateCall(p)
    \/ \E p \in Procs : CloseCall(p)
    \/ \E p \in Procs : Cancel(p)

SpecCancel == CancelInit /\ [][NextCancel]_vars

\* the four methods of the series, over a block database that starts empty
MethodsInit == CodecOff /\ SeriesStartOver({}) /\ closeFaults = FALSE /\ SourceOff /\ ServerOff

NextMethods ==
    \/ \E p \in Procs : IDCall(p)
    \/ \E p \in Procs : SpanCall(p)
    \/ \E p \in Procs : CreateProbe(p)
    \/ \E p \in Procs : CreateCall(p)
    \/ \E p \in Procs : GetCall(p)

SpecMethods == MethodsInit /\ [][NextMethods]_vars

\* the channel source with its producer, its consumer and the owner of its
\* context.  A goroutine that can run does run, and the consumer keeps taking
\* what is in s.out
SourceInit == CodecOff /\ SeriesStart /\ SourceStart /\ ServerOff

RunStep == (RunRecv \/ RunSelect) /\ UNCHANGED <<codecVars, dbVars, seriesVars, envVars, serverVars>>

DrainStep == Drain /\ UNCHANGED <<codecVars, dbVars, seriesVars, envVars, serverVars>>

NextSource ==
    \/ Produce /\ UNCHANGED <<codecVars, dbVars, seriesVars, envVars, serverVars>>
    \/ CloseIn /\ UNCHANGED <<codecVars, dbVars, seriesVars, envVars, serverVars>>
    \/ Setup /\ UNCHANGED <<codecVars, dbVars, seriesVars, envVars, serverVars>>
    \/ RunStep
    \/ DrainStep
    \/ SourceCancel /\ UNCHANGED <<codecVars, dbVars, seriesVars, envVars, serverVars>>
    \/ Teardown /\ UNCHANGED <<codecVars, dbVars, seriesVars, envVars, serverVars>>

SpecSource ==
    SourceInit /\ [][NextSource]_vars /\ WF_vars(RunStep) /\ WF_vars(DrainStep)

\* the gRPC server with its clients.  A goroutine that can run does run, and a
\* running timer fires
OtherOff == UNCHANGED <<codecVars, dbVars, seriesVars, envVars, sourceVars>>

ServerInit == CodecOff /\ SeriesStart /\ SourceOff /\ ServerOff

ServeStep == (ServeListen \/ ServeReturn) /\ OtherOff

GracefulStep == (GracefulBegin \/ GracefulEnd) /\ OtherOff

TimerStep == TimerFire /\ OtherOff

SelectStep == GracefulStopSelect /\ OtherOff

NextServer ==
    \/ ServeCall /\ OtherOff
    \/ ServeStep
    \/ StopNotified /\ OtherOff
    \/ RPCBegin /\ OtherOff
    \/ RPCEnd /\ OtherOff
    \/ GracefulStopCall /\ OtherOff
    \/ GracefulStep
    \/ TimerStep
    \/ SelectStep

SpecServer ==
    /\ ServerInit
    /\ [][NextServer]_vars
    /\ WF_vars(ServeStep) /\ WF_vars(GracefulStep) /\ WF_vars(TimerStep) /\ WF_vars(SelectStep)

\* the series with all its operations
NextSeries ==
    \/ Next
    \/ \E p \in Procs : GetCall(p)
    \/ \E p \in Procs : CloserCall(p)

SpecSeries == Init /\ [][NextSeries]_vars

----------------------------------------------------------------------------
(* Properties of the codec, checked under SpecCodec.                        *)

\* the number formed by the big-endian bytes of e at 0-based offsets
\* off .. off+w-1, as base-65536 digits
DigitsAt(e, off, w) ==
    [k \in 1..(w \div 2) |-> e[off + 2 * k - 1] * 256 + e[off + 2 * k]]

\* -1, 0 or 1 as the number with digits x is below, equal to or above the
\* number with digits y (x and y have the same length)
RECURSIVE DigitsCompare(_, _)
DigitsCompare(x, y) ==
    IF x = <<>> THEN 0
    ELSE IF Head(x) < Head(y) THEN -1
    ELSE IF Head(x) > Head(y) THEN 1
    ELSE DigitsCompare(Tail(x), Tail(y))

\* comparison of (shard, segment, block, series, item), field by field
TupleCompare(a, b) ==
    DigitsCompare(a.ShardID \o <<a.segID, a.blockID>> \o a.SeriesID \o a.ID,
                  b.ShardID \o <<b.segID, b.blockID>> \o b.SeriesID \o b.ID)

\* C1: unmarshalling the bytes Marshal produced succeeds and gives back the id,
\* equal in all five fields.
C1_RoundTrip ==
    (cpc = "unmarshalled" /\ data = encoded) =>
        /\ uerr = Nil
        /\ recv.ShardID = gid.ShardID
        /\ recv.segID = gid.segID
        /\ recv.blockID = gid.blockID
        /\ recv.SeriesID = gid.SeriesID
        /\ recv.ID = gid.ID

C1_Witness ==
    /\ cpc = "unmarshalled"
    /\ data = encoded
    /\ gid = S1ID
    /\ recv = S1ID
    /\ uerr = Nil

\* C2: Marshal returns exactly 24 bytes: the shard at offset 0 (4 bytes), the
\* segment at 4 (2), the block at 6 (2), the series at 8 (8) and the item at
\* 16 (8), each big-endian.
C2_Layout ==
    cpc # "start" =>
        /\ Len(encoded) = 24
        /\ \A k \in 1..Len(encoded) : encoded[k] \in Byte
        /\ DigitsAt(encoded, 0, 4) = gid.ShardID
        /\ DigitsAt(encoded, 4, 2) = <<gid.segID>>
        /\ DigitsAt(encoded, 6, 2) = <<gid.blockID>>
        /\ DigitsAt(encoded, 8, 8) = gid.SeriesID
        /\ DigitsAt(encoded, 16, 8) = gid.ID

\* scenario S1: the expected bytes of (7, 3, 11, 0xDEADBEEF, 0x0102030405060708)
C2_Witness ==
    /\ cpc = "marshalled"
    /\ gid = S1ID
    /\ encoded = <<0, 0, 0, 7, 0, 3, 0, 11, 0, 0, 0, 0, 222, 173, 190, 239,
                   1, 2, 3, 4, 5, 6, 7, 8>>

\* C3: UnMarshal fails with ErrItemIDMalformed on every byte string whose
\* length is not 24, and succeeds on every byte string of length 24.
C3_MalformedRejection ==
    cpc = "unmarshalled" =>
        /\ Len(data) # 24 => uerr = ErrItemIDMalformed
        /\ Len(data) = 24 => uerr = Nil

C3_Witness ==
    /\ cpc = "unmarshalled"
    /\ Len(data) > 24
    /\ uerr = ErrItemIDMalformed

\* C4: the byte comparison of two encodings equals the comparison of the two
\* tuples (shard, segment, block, series, item).
C4_LexicographicOrder ==
    cpc = "compared" => cmp = TupleCompare(gid, other)

\* an earlier field decides against a later one: the block is smaller, the
\* item larger
C4_Witness ==
    /\ cpc = "compared"
    /\ gid.ShardID = other.ShardID
    /\ gid.segID = other.segID
    /\ gid.blockID < other.blockID
    /\ DigitsCompare(gid.ID, other.ID) = 1
    /\ cmp = -1

----------------------------------------------------------------------------
(* Properties of Series.Span and Series.Create, checked under Spec.         *)

\* the calls that returned, of all callers
Records == UNION {{hist[p][i] : i \in 1..Len(hist[p])} : p \in Procs}

\* the probe of r returned a list (empty or not) and no error
ProbeEmpty(r) == r.probe.err = Nil /\ r.probe.blocks = <<>>

ProbeFound(r) == r.probe.err = Nil /\ r.probe.blocks # <<>>

Succeeded(r) == r.ret.err = Nil /\ r.ret.span # NilSpan

\* C5: Span fails with ErrEmptySeriesSpan exactly when blockDB.span returned an
\* empty list without error; when it returned a non-empty list, Span returns a
\* span holding exactly those delegates in the same order; no span it returns
\* has zero delegates.
C5_SpanEmptiness ==
    \A r \in Records :
        r.op = "Span" =>
            /\ r.ret.err = ErrEmptySeriesSpan <=> ProbeEmpty(r)
            /\ ProbeFound(r) => Succeeded(r) /\ r.ret.span.blocks = r.probe.blocks
            /\ r.ret.span # NilSpan => Len(r.ret.span.blocks) > 0

\* one Span found two blocks and returned them in order of time, another found
\* none
C5_Witness ==
    \E r1 \in Records, r2 \in Records :
        /\ r1.op = "Span" /\ r2.op = "Span"
        /\ Len(r1.probe.blocks) = 2
        /\ r1.ret.span.blocks = r1.probe.blocks
        /\ r1.ret.span.blocks[1].slot < r1.ret.span.blocks[2].slot
        /\ ProbeEmpty(r2)
        /\ r2.ret = Returned(NilSpan, ErrEmptySeriesSpan)

\* the call that returns to p in this step, if one does
Returns(p) == Len(hist'[p]) = Len(hist[p]) + 1

Returning(p) == hist'[p][Len(hist'[p])]

\* C6: a Create whose probe returned a non-empty list does not call
\* blockDB.create, brings no block into existence and returns a span holding
\* exactly the delegates of the probe.
C6_CreateExisting ==
    [][\A p \in Procs :
          (Returns(p) /\ Returning(p).op = "Create" /\ ProbeFound(Returning(p))) =>
              /\ Returning(p).nCreate = 0
              /\ blocks' = blocks
              /\ nextBlockID' = nextBlockID
              /\ Succeeded(Returning(p))
              /\ Returning(p).ret.span.blocks = Returning(p).probe.blocks]_vars

C6_Witness ==
    \E r \in Records :
        /\ r.op = "Create"
        /\ ProbeFound(r)
        /\ r.nCreate = 0
        /\ r.ret.span.blocks = r.probe.blocks

\* C7: a Create whose probe returned an empty list without error calls
\* blockDB.create exactly once, and when that succeeds returns a span holding
\* exactly one delegate, the one blockDB.create returned.
C7_CreateNew ==
    \A r \in Records :
        (r.op = "Create" /\ ProbeEmpty(r)) =>
            /\ r.nCreate = 1
            /\ r.cres.err = Nil =>
                  Succeeded(r) /\ r.ret.span.blocks = <<r.cres.block>>

C7_Witness ==
    \E r \in Records :
        /\ r.op = "Create"
        /\ ProbeEmpty(r)
        /\ r.nCreate = 1
        /\ r.made = 1
        /\ r.ret.span.blocks = <<r.cres.block>>
        /\ r.cres.block \in blocks

\* C8: every span Create returns has the time range [t, t], both ends
\* included.
C8_CreateTimeRange ==
    \A r \in Records :
        (r.op = "Create" /\ r.ret.span # NilSpan) =>
            r.ret.span.timeRange =
                [Start |-> r.t, End |-> r.t, IncludeStart |-> TRUE, IncludeEnd |-> TRUE]

\* one span wraps a block made by the call, another a block that was there
C8_Witness ==
    \E r1 \in Records, r2 \in Records :
        /\ r1.op = "Create" /\ r1.made = 1 /\ Succeeded(r1)
        /\ r1.ret.span.timeRange = NewTimeRange(r1.t, r1.t, TRUE, TRUE)
        /\ r2.op = "Create" /\ ProbeFound(r2) /\ Succeeded(r2)
        /\ r2.ret.span.timeRange = NewTimeRange(r2.t, r2.t, TRUE, TRUE)

\* C9: two successive Create calls of one caller with the same t, no block
\* removed between their returns, give spans with one delegate each, of the
\* same block, and the second call makes no block.
C9_CreateIdempotence ==
    \A p \in Procs : \A i \in 1..(Len(hist[p]) - 1) :
        LET r1 == hist[p][i]
            r2 == hist[p][i + 1]
        IN  (/\ r1.op = "Create" /\ r2.op = "Create"
             /\ r1.t = r2.t
             /\ Succeeded(r1) /\ Succeeded(r2)
             /\ r1.removedAtRet = r2.removedAtRet) =>
                /\ Len(r1.ret.span.blocks) = 1
                /\ Len(r2.ret.span.blocks) = 1
                /\ r1.ret.span.blocks[1].id = r2.ret.span.blocks[1].id
                /\ r2.made = 0

\* the first call made the block, the second found it
C9_Witness ==
    \E p \in Procs :
        /\ Len(hist[p]) = 2
        /\ hist[p][1].op = "Create" /\ hist[p][2].op = "Create"
        /\ hist[p][1].t = hist[p][2].t
        /\ hist[p][1].made = 1
        /\ Succeeded(hist[p][2])
        /\ hist[p][2].nCreate = 0
        /\ hist[p][1].removedAtRet = hist[p][2].removedAtRet
        /\ hist[p][2].ret.span.blocks = hist[p][1].ret.span.blocks

\* the blocks a span holds a delegate of
Delegates(span) == {span.blocks[k] : k \in 1..Len(span.blocks)}

----------------------------------------------------------------------------
(* Properties of Series.Get, checked under SpecSeries.                      *)

\* the Get calls that returned, of all callers: <<p, i>> for gets[p][i]
GetRefs == {c \in Procs \X (1..MaxCalls) : c[2] <= Len(gets[c[1]])}

GetOf(c) == gets[c[1]][c[2]]

\* blockDB.block returned nil and no error
BlockNil(g) == g.bres.err = Nil /\ g.bres.block = NoBlock

\* blockDB.block returned a delegate
BlockFound(g) == g.bres.err = Nil /\ g.bres.block # NoBlock

\* C11: a Get whose blockDB.block returned nil without error returns no item
\* and no closer, and fails with ErrBlockAbsent annotated with the id it was
\* called with.
C11_GetAbsent ==
    \A c \in GetRefs :
        LET g == GetOf(c)
        IN  BlockNil(g) =>
            /\ g.ret.item = NilItem
            /\ g.ret.closer = NoBlock
            /\ g.ret.err = [cause |-> ErrBlockAbsent, format |-> "id: %v", arg |-> g.id]

\* scenario S6: the addressed block was removed before the call
C11_Witness ==
    \E c \in GetRefs :
        LET g == GetOf(c)
        IN  /\ BlockNil(g)
            /\ \A b \in blocks : b.id # g.id.blockID
            /\ g.ret.item = NilItem
            /\ g.ret.closer = NoBlock
            /\ g.ret.err.cause = ErrBlockAbsent
            /\ g.ret.err.arg = g.id

\* C12: every item a Get returns is tagged with the series' id (what ID()
\* returns) and with the item field of the id the call was given, and reads
\* through the data reader of the delegate blockDB.block returned.
C12_GetItem ==
    \A c \in GetRefs :
        LET g == GetOf(c)
        IN  g.ret.item # NilItem =>
            /\ BlockFound(g)
            /\ g.ret.item.seriesID = ID(series)
            /\ g.ret.item.itemID = g.id.ID
            /\ g.ret.item.data = dataReader(g.bres.block)

\* the address names another series than the one Get was called on
C12_Witness ==
    \E c \in GetRefs :
        LET g == GetOf(c)
        IN  /\ BlockFound(g)
            /\ g.ret.item # NilItem
            /\ g.id.SeriesID # ID(series)
            /\ g.ret.item.seriesID = ID(series)
            /\ g.ret.item.itemID = g.id.ID
            /\ g.ret.item.data = [block |-> g.id.blockID]

\* the Gets that returned a closer on block k which was not invoked yet
OpenGets(k) ==
    {c \in GetRefs : /\ GetOf(c).ret.closer # NoBlock
                     /\ GetOf(c).ret.closer.id = k
                     /\ ~GetOf(c).closed}

\* every closer not invoked yet has its lease
GetLeasesHeld ==
    \A b \in InitialBlocks : leases[b.id] >= Cardinality(OpenGets(b.id))

\* C13: from the return of a successful Get until its closer is invoked the
\* lease of the delegate stays held (the closer is that delegate, and no step
\* of the series releases it), and the step that invokes the closer takes
\* exactly one lease from exactly that delegate's block.
C13_GetLease ==
    [][/\ GetLeasesHeld'
       /\ \A c \in GetRefs :
             LET g == GetOf(c)
             IN  (g.ret.closer # NoBlock /\ ~g.closed) =>
                    /\ g.ret.closer = g.bres.block
                    /\ IF gets'[c[1]][c[2]].closed
                       THEN leases' = [leases EXCEPT ![g.ret.closer.id] = @ - 1]
                       ELSE leases'[g.ret.closer.id] >= 1]_vars

\* two Gets on one block: one closer was invoked, the other holds the one
\* lease that is left
C13_Witness ==
    \E c \in GetRefs : \E d \in GetRefs \ {c} :
        /\ GetOf(c).ret.closer # NoBlock
        /\ GetOf(d).ret.closer = GetOf(c).ret.closer
        /\ GetOf(c).closed
        /\ ~GetOf(d).closed
        /\ leases[GetOf(d).ret.closer.id] = 1

----------------------------------------------------------------------------
(* Properties of seriesSpan.Close, checked under SpecClose.                 *)

\* the number of Close calls the call recorded in r made on its k-th delegate
CloseCount(r, k) ==
    Cardinality({j \in 1..Len(r.closeCalls) : r.closeCalls[j] = r.ret.span.blocks[k]})

\* C14: one Close of a span calls Close on each of its delegates exactly
\* once, whichever of the delegates fail; the delegates after a failing one
\* are closed too.
C14_CloseAll ==
    \A r \in Records :
        r.closed =>
            /\ Len(r.closeCalls) = Len(r.ret.span.blocks)
            /\ \A k \in 1..Len(r.ret.span.blocks) : CloseCount(r, k) = 1

\* scenario S7: a span of three delegates, the first and the third failing
C14_Witness ==
    \E r \in Records :
        /\ r.closed
        /\ Len(r.ret.span.blocks) = 3
        /\ r.closeFailed = {1, 3}
        /\ r.closeCalls = r.ret.span.blocks
        /\ \A k \in 1..3 : leases[r.ret.span.blocks[k].id] = 0

\* C15: the error of Close is nil exactly when no delegate failed; otherwise
\* it is one error holding the failure of every delegate that failed, once
\* each and nothing else.
C15_CloseError ==
    \A r \in Records :
        r.closed =>
            /\ r.closeErr = <<>> <=> r.closeFailed = {}
            /\ Len(r.closeErr) = Cardinality(r.closeFailed)
            /\ \A k \in r.closeFailed :
                  \E j \in 1..Len(r.closeErr) : r.closeErr[j] = ErrClose(r.ret.span.blocks[k])

\* scenario S7: the one error lists both failures; another Close failed in
\* nothing and returned nil
C15_Witness ==
    \E r1 \in Records, r2 \in Records :
        /\ r1.closed /\ r2.closed
        /\ Len(r1.ret.span.blocks) = 3
        /\ r1.closeFailed = {1, 3}
        /\ r1.closeErr = <<ErrClose(r1.ret.span.blocks[1]), ErrClose(r1.ret.span.blocks[3])>>
        /\ r2.closeFailed = {}
        /\ r2.closeErr = <<>>

----------------------------------------------------------------------------
(* Properties of the leases, checked under SpecSeries.                      *)

\* the delegates a Span or Create call acquired from the block database
Acquired(r) ==
    r.probe.blocks \o (IF r.cres.block = NoBlock THEN <<>> ELSE <<r.cres.block>>)

\* the delegates of the spans in h that were returned and not closed
RECURSIVE OpenDelegates(_)
OpenDelegates(h) ==
    IF h = <<>> THEN <<>>
    ELSE (IF Head(h).ret.span # NilSpan /\ ~Head(h).closed
          THEN Head(h).ret.span.blocks ELSE <<>>) \o OpenDelegates(Tail(h))

\* the closers in g that were returned and not invoked
RECURSIVE OpenClosers(_)
OpenClosers(g) ==
    IF g = <<>> THEN <<>>
    ELSE (IF Head(g).ret.closer # NoBlock /\ ~Head(g).closed
          THEN <<Head(g).ret.closer>> ELSE <<>>) \o OpenClosers(Tail(g))

\* the leases l and one more for every delegate the callers ps hold
RECURSIVE HeldBy(_, _)
HeldBy(ps, l) ==
    IF ps = {} THEN l
    ELSE LET p == CHOOSE q \in ps : TRUE
         IN  HeldBy(ps \ {p},
                    Acquire(Acquire(l, OpenDelegates(hist[p])), OpenClosers(gets[p])))

\* C16: every delegate acquired through Span, Create or Get is handed to the
\* caller in the span or as the closer, and a call that returns an error has
\* acquired none; Close of a span calls Close once on each of its delegates;
\* so with callers that close what they were given once, the leases held
\* on a block are at all times exactly those of the delegates in spans and
\* closers not closed yet: none is leaked, none released twice.
C16_LeaseAccounting ==
    /\ \A p \in Procs :
          /\ \A i \in 1..Len(hist[p]) :
                LET r == hist[p][i]
                IN  /\ r.ret.span = NilSpan => Acquired(r) = <<>>
                    /\ r.ret.span # NilSpan => r.ret.span.blocks = Acquired(r)
                    /\ r.closed => r.closeCalls = Acquired(r)
          /\ \A i \in 1..Len(gets[p]) : gets[p][i].ret.closer = gets[p][i].bres.block
          /\ cur[p].probe.blocks = <<>>
    /\ leases = HeldBy(Procs, [b \in DOMAIN leases |-> 0])

\* a span of two delegates was closed while a Get held the first of the two
\* blocks: the Get's lease is the one left; a call that failed in the block
\* database holds nothing
C16_Witness ==
    \E r \in Records : \E c \in GetRefs :
        /\ r.closed
        /\ Len(r.ret.span.blocks) = 2
        /\ GetOf(c).ret.closer = r.ret.span.blocks[1]
        /\ ~GetOf(c).closed
        /\ leases[r.ret.span.blocks[1].id] = 1
        /\ leases[r.ret.span.blocks[2].id] = 0

----------------------------------------------------------------------------
(* Properties of the errors, checked under SpecSeries.                      *)

\* C17: a Span, Create or Get whose block-database call returned an error
\* returns that error as it is, with no span, item or closer, and makes no
\* block-database call after it; no call of the series makes a
\* block-database call more than once.
C17_ErrorPassThrough ==
    \A p \in Procs :
        /\ \A i \in 1..Len(hist[p]) :
              LET r == hist[p][i]
              IN  /\ r.probe.err # Nil =>
                        /\ r.ret = Returned(NilSpan, r.probe.err)
                        /\ r.nCreate = 0
                        /\ r.cres = NoCreate
                  /\ r.cres.err # Nil => r.ret = Returned(NilSpan, r.cres.err)
                  /\ r.nCreate \in {0, 1}
                  /\ r.op = "Span" => r.nCreate = 0
        /\ \A i \in 1..Len(gets[p]) :
              LET g == gets[p][i]
              IN  g.bres.err # Nil =>
                      /\ g.ret.item = NilItem
                      /\ g.ret.closer = NoBlock
                      /\ g.ret.err = g.bres.err

\* a Create failed in blockDB.create after an empty probe and made no block,
\* and a Get failed in blockDB.block
C17_Witness ==
    \E p \in Procs, q \in Procs :
        \E i \in 1..Len(hist[p]), j \in 1..Len(gets[q]) :
            /\ hist[p][i].op = "Create"
            /\ ProbeEmpty(hist[p][i])
            /\ hist[p][i].nCreate = 1
            /\ hist[p][i].cres.err = ErrUpstream
            /\ hist[p][i].made = 0
            /\ hist[p][i].ret = Returned(NilSpan, ErrUpstream)
            /\ gets[q][j].bres.err = ErrUpstream
            /\ gets[q][j].ret.err = ErrUpstream
            /\ gets[q][j].ret.closer = NoBlock

----------------------------------------------------------------------------
(* Properties of cancellation, checked under SpecCancel.                    *)

\* C18: the step in which a caller cancels its context closes no span and
\* releases no lease, and the delegates of a span that Span or Create
\* returned keep their leases for as long as the span is not closed by
\* seriesSpan.Close, whether or not the context of the call is cancelled.
C18_CancelDetached ==
    [][/\ \A p \in Procs :
             (~ctxDone[p] /\ ctxDone'[p]) =>
                 /\ leases' = leases
                 /\ hist' = hist
       /\ \A q \in Procs : \A i \in 1..Len(hist'[q]) :
             LET r == hist'[q][i]
             IN  /\ (r.ret.span # NilSpan /\ ~r.closed) =>
                        \A k \in 1..Len(r.ret.span.blocks) :
                            leases'[r.ret.span.blocks[k].id] >= 1
                 /\ r.closed => r.closeCalls = r.ret.span.blocks]_vars

\* a caller cancelled its context after a Create and a Span returned spans
\* on one block to it; both spans are open and hold their leases
C18_Witness ==
    \E p \in Procs :
        /\ ctxDone[p]
        /\ Len(hist[p]) = 2
        /\ hist[p][1].op = "Create" /\ hist[p][2].op = "Span"
        /\ hist[p][1].made = 1
        /\ Succeeded(hist[p][1]) /\ Succeeded(hist[p][2])
        /\ ~hist[p][1].closed /\ ~hist[p][2].closed
        /\ leases[hist[p][1].ret.span.blocks[1].id] = 2

----------------------------------------------------------------------------
(* The time range of a span, checked under SpecSeries.                      *)

\* the points of time the delegates of a span cover
CoveredBy(span) == UNION {Covered(b) : b \in Delegates(span)}

\* C19: the time range of every span that Span or Create returned lies within
\* the union of the windows its delegates cover.
C19_RangeCovered ==
    \A r \in Records :
        r.ret.span # NilSpan => Points(r.ret.span.timeRange) \subseteq CoveredBy(r.ret.span)

----------------------------------------------------------------------------
(* The series object, checked under SpecMethods.                            *)

\* C20: no step of any caller (ID, Span, Create, Get, in any interleaving,
\* returning a result or an error) changes the id, the shardID or the
\* block-database reference of the series; what a step changes besides the
\* callers' own results is the block database.
C20_SeriesImmutable ==
    [][/\ series'.id = series.id
       /\ series'.shardID = series.shardID
       /\ series'.blockDB = series.blockDB]_vars

\* one caller is inside Create, between its probe and blockDB.create, while
\* a Get of the other failed; the series is as newSeries made it
C20_Witness ==
    \E p \in Procs : \E q \in Procs \ {p} :
        /\ pc[p] = "create"
        /\ Len(gets[q]) >= 1
        /\ gets[q][1].ret.item = NilItem
        /\ series = newSeries(<<0, 0, 0, 9>>, <<0, 7>>)
        /\ ID(series) = <<0, 0, 0, 9>>

----------------------------------------------------------------------------
(* Close called more than once, checked under SpecReclose.                  *)

\* the leases l, one more for every delegate the spans in h acquired and one
\* less for every Close call made on a delegate
RECURSIVE Balance(_, _)
Balance(h, l) ==
    IF h = <<>> THEN l
    ELSE Balance(Tail(h), Release(Acquire(l, Acquired(Head(h))), Head(h).closeCalls))

\* the number of Close calls made on the k-th delegate the call of r acquired
ReleaseCount(r, k) ==
    Cardinality({j \in 1..Len(r.closeCalls) : r.closeCalls[j] = Acquired(r)[k]})

\* C21: a span on which Close was called n times had Close called n times on
\* each of its delegates; the lease count of a block is the number of
\* acquisitions less the number of Close calls on its delegates, so a span
\* leaves the counts balanced exactly when it was closed once.
C21_CloseNotIdempotent ==
    /\ \A p \in Procs : \A i \in 1..Len(hist[p]) :
          LET r == hist[p][i]
          IN  r.ret.span # NilSpan =>
                  /\ r.closed <=> r.nClose >= 1
                  /\ \A k \in 1..Len(Acquired(r)) : ReleaseCount(r, k) = r.nClose
    /\ \E p \in Procs : \E q \in Procs \ {p} :
          leases = Balance(hist[p], Balance(hist[q], [b \in DOMAIN leases |-> 0]))

\* the only span taken was closed twice: each of its two delegates was closed
\* twice and their blocks are one lease short
C21_Witness ==
    \E p \in Procs : \E q \in Procs \ {p} :
        /\ Len(hist[p]) = 1 /\ hist[q] = <<>>
        /\ Succeeded(hist[p][1])
        /\ Len(hist[p][1].ret.span.blocks) = 2
        /\ hist[p][1].nClose = 2
        /\ hist[p][1].closeCalls = hist[p][1].ret.span.blocks \o hist[p][1].ret.span.blocks
        /\ \A k \in 1..2 : leases[hist[p][1].ret.span.blocks[k].id] = -1

----------------------------------------------------------------------------
(* The channel source. *)

\* the records run has sent are those of the first values it received, in the
\* order it received them
SentIsPrefix ==
    /\ Len(srcLog.sent) <= Len(srcLog.received)
    /\ \A i \in 1..Len(srcLog.sent) : srcLog.sent[i] = TryExactTimestamp(srcLog.received[i])

\* the number of received values that were not sent
Unsent == Len(srcLog.received) - Len(srcLog.sent)

\* C22: the records sent on the output channel are always the records of a
\* prefix of the values received from the input channel, in the same order,
\* none duplicated and none skipped: between two receives nothing is unsent,
\* at the select exactly the value received last is unsent, and after run
\* returned at most that last value is unsent, and only with the context
\* cancelled.  The values received are those the producer sent, in order.
C22_SourceOrdering ==
    /\ SentIsPrefix
    /\ \A i \in 1..Len(srcLog.received) : srcLog.received[i] = i
    /\ rpc \in {"none", "recv"} => Unsent = 0
    /\ rpc = "select" => Unsent = 1 /\ val = srcLog.received[Len(srcLog.received)]
    /\ rpc = "done" => Unsent <= 1 /\ (Unsent = 1 => srcCtx)

\* run sent a record, then dropped the value it received last because the
\* context was cancelled
C22_Witness ==
    /\ rpc = "done"
    /\ Len(srcLog.sent) >= 1
    /\ Unsent = 1
    /\ srcCtx

\* run has returned and its deferred function has run: s.out is closed once,
\* Done was signalled once for the one Add of Setup, and the WaitGroup is at
\* zero, so that Wait returns
Exited ==
    /\ rpc = "done"
    /\ outCh.closes = 1
    /\ wg.adds = 1 /\ wg.dones = 1 /\ wg.count = 0

\* C23: once the input channel is closed, with the consumer draining s.out,
\* a started run eventually returns, having closed s.out exactly once and
\* signalled Done exactly once for the Add(1) of Setup, so the WaitGroup is at
\* zero and Teardown's Wait is not blocked; s.out is never closed twice,
\* nothing is sent after the close, and a source that has exited stays so.
C23_InputCloseStops ==
    /\ (rpc # "none" /\ inCh.closed) ~> Exited
    /\ [](outCh.closes <= 1 /\ wg.dones <= 1)
    /\ [](rpc = "done" => Exited /\ (srcLog.torn \/ ENABLED Teardown))
    /\ [][outCh.closes = 1 => srcLog'.sent = srcLog.sent /\ outCh'.closes = 1]_vars

\* the input was closed after all its values had been sent, run forwarded them
\* all and returned without a cancellation, and Teardown returned
C23_Witness ==
    /\ inCh.closed /\ ~srcCtx
    /\ Len(srcLog.sent) = MaxIn
    /\ Exited
    /\ srcLog.torn

\* C24: after the context passed to Setup is cancelled, a started run
\* eventually returns and closes s.out, whatever the state of the input
\* channel, an input that stays open and delivers nothing included.
C24_CancelStops == (srcCtx /\ rpc # "none") ~> (rpc = "done" /\ outCh.closes = 1)

----------------------------------------------------------------------------
(* The gRPC server. *)

\* GracefulStop returned through the stopped case: the graceful stop
\* completed and the forced Stop was not called
StoppedGracefully ==
    /\ gs.outcome = "stopped gracefully"
    /\ gs.stopped = 1
    /\ ser.stops = 0

\* GracefulStop returned through the timer case: the timer fired and the
\* forced Stop was called once
ForceStopped ==
    /\ gs.outcome = "force stopped"
    /\ timer = "fired"
    /\ ser.stops = 1

\* C25: Server.GracefulStop always returns, and in one of two ways that
\* exclude each other: its select saw the graceful stop complete, and then the
\* forced Stop is never called, or it saw the timer fire, and then the forced
\* Stop is called exactly once.  Before it returns Stop has not been called.
C25_GracefulStopReturns ==
    /\ (gs.pc = "select") ~> (gs.pc = "returned")
    /\ [](gs.pc = "returned" => (StoppedGracefully /\ ~ForceStopped) \/ (ForceStopped /\ ~StoppedGracefully))
    /\ [](gs.pc # "returned" => gs.outcome = Nil /\ ser.stops = 0)
    /\ [][gs.pc = "returned" => ser'.stops = ser.stops /\ gs'.outcome = gs.outcome]_vars

\* the timer fired with a call still in flight: GracefulStop forced the stop
\* and returned, and the pending graceful stop completed after it
C25_Witness ==
    /\ gs.pc = "returned"
    /\ ForceStopped
    /\ gs.g = "closed"

\* C26: the stop-notify channel Serve returns is closed at most once, and by
\* the serving goroutine only; it is closed exactly when that goroutine has
\* ended: at once when listening failed, s.ser.Serve never having been called,
\* and otherwise when s.ser.Serve has returned, nil or an error; it is open
\* while the server serves, and the caller is notified only after the close.
C26_StopNotifyOnce ==
    /\ stopCh.closes <= 1
    /\ \A i \in 1..Len(stopCh.by) : stopCh.by[i] = TheServeGoroutine
    /\ Len(stopCh.by) = stopCh.closes
    /\ stopCh.closes = 1 <=> servePc = "done"
    /\ ser.listen = "err" => servePc = "done" /\ ser.serveCalls = 0 /\ ser.serveRet = "none"
    /\ servePc = "done" /\ ser.listen # "err" =>
          ser.listen = "ok" /\ ser.serveCalls = 1 /\ ser.serveRet \in {"nil", "err"}
    /\ servePc = "serving" => ser.serveCalls = 1 /\ ser.serveRet = "none"
    /\ stopCh.seen => stopCh.closes = 1

\* the server served, was stopped, s.ser.Serve returned nil, the goroutine
\* closed the channel and the caller of Serve was notified
C26_Witness ==
    /\ servePc = "done"
    /\ ser.listen = "ok" /\ ser.serveRet = "nil"
    /\ stopCh.closes = 1
    /\ stopCh.seen

====
